---------------------------- MODULE Spec2Model ----------------------------
(***************************************************************************)
(* A model of mtgtabletop.py (MTGTabletop v0.3): the deck splitter and the *)
(* export loop, the sheet compositor, the deck-list parser and the         *)
(* per-deck orchestration with image resolution.                           *)
(*                                                                         *)
(* Each of the four parts keeps its state in one record variable whose     *)
(* fields carry the names of the locals of the Python function.  A part    *)
(* that a specification does not exercise stays at Idle.                   *)
(***************************************************************************)
EXTENDS Integers, Sequences, FiniteSets, TLC

VARIABLES split, stitch, read, main

vars == <<split, stitch, read, main>>

Idle == [pc |-> "idle"]

(***************************************************************************)
(* Values shared by the parts.                                             *)
(***************************************************************************)

\* Python's None: what fetch_image returns when the download or decoding fails.
None == "None"

\* An entry is a pair <<quantity, image>> (entry[0], entry[1] in the source).
Qty(entry) == entry[1]
Img(entry) == entry[2]

SeqsUpTo(S, n) == UNION {[1..k -> S] : k \in 0..n}

(***************************************************************************)
(* no_of_cards, split_deck_if_necessary, export_deck                       *)
(***************************************************************************)

\* Longest list of resolved entries handed to export_deck.
MaxLen == 4

\* The sheet capacity the splitter compares against (the literal 69).
SheetCapacity == 69

\* Resolved entries given to export_deck.  Quantities sit on both sides of the
\* capacity; 0 is a quantity read_deck lets through; an entry with no image
\* comes from the randomised-land path, which always produces quantity 1.
SplitEntries ==
    ({0, 1, 34, 35, 69, 70, 140} \X {"imgA"})
        \cup {<<1, "imgB">>, <<35, "imgB">>, <<1, None>>}

SplitInputs == SeqsUpTo(SplitEntries, MaxLen)

RECURSIVE no_of_cards(_)
no_of_cards(entries) ==
    IF entries = <<>> THEN 0
    ELSE Qty(entries[1]) + no_of_cards(Tail(entries))

\* A slip in the comparison: one card too many is let onto a sheet.
OverflowsOffByOne(current_deck, entry) ==
    no_of_cards(current_deck) + Qty(entry) > SheetCapacity + 1

\* A slip in the comparison: a sheet is closed when it would become exactly full.
OverflowsAtCapacity(current_deck, entry) ==
    no_of_cards(current_deck) + Qty(entry) >= SheetCapacity

\* The test that closes the current sheet before an entry is added.
Overflows(current_deck, entry) ==
    no_of_cards(current_deck) + Qty(entry) > SheetCapacity

\* A slip in the loop body: the entry that closes a sheet is not carried over.
SplitBodyDropsEntry(decks, current_deck, entry) ==
    IF Overflows(current_deck, entry)
    THEN <<Append(decks, current_deck), <<>>>>
    ELSE <<decks, Append(current_deck, entry)>>

\* One iteration of the splitter's loop: the pair <<decks, current_deck>> after it.
SplitBody(decks, current_deck, entry) ==
    IF Overflows(current_deck, entry)
    THEN <<Append(decks, current_deck), <<entry>>>>
    ELSE <<decks, Append(current_deck, entry)>>

\* The splitter's loop run to its end on the entries that are left, and the
\* append that follows it.
RECURSIVE SplitLoop(_, _, _)
SplitLoop(decks, current_deck, entries) ==
    IF entries = <<>> THEN Append(decks, current_deck)
    ELSE LET r == SplitBody(decks, current_deck, entries[1])
         IN SplitLoop(r[1], r[2], Tail(entries))

split_deck_if_necessary(entries) == SplitLoop(<<>>, <<>>, entries)

\* export_deck(entries) is entered: the splitter's loop is about to start.
ExportStart(entries) ==
    [pc |-> "split", entries |-> entries, i |-> 1, decks |-> <<>>,
     current_deck |-> <<>>, deck_count |-> 0, files |-> <<>>,
     exception |-> None]

SplitIterate ==
    /\ split.pc = "split"
    /\ split.i <= Len(split.entries)
    /\ LET r == SplitBody(split.decks, split.current_deck, split.entries[split.i])
       IN split' = [split EXCEPT !.decks = r[1], !.current_deck = r[2],
                                 !.i = @ + 1]
    /\ UNCHANGED <<stitch, read, main>>

\* A slip after the loop: the last sheet is appended only when it holds entries.
SplitReturnSkipsEmpty ==
    /\ split.pc = "split"
    /\ split.i > Len(split.entries)
    /\ split' = [split EXCEPT
                    !.decks = IF split.current_deck = <<>> THEN @
                              ELSE Append(@, split.current_deck),
                    !.pc = "export"]
    /\ UNCHANGED <<stitch, read, main>>

SplitReturn ==
    /\ split.pc = "split"
    /\ split.i > Len(split.entries)
    /\ split' = [split EXCEPT !.decks = Append(@, split.current_deck),
                              !.pc = "export"]
    /\ UNCHANGED <<stitch, read, main>>

\* stitch_deck pastes entry[1] once per copy: an entry without image makes the
\* paste raise before anything is saved.
PasteRaises(deck) ==
    \E k \in 1..Len(deck) : Qty(deck[k]) >= 1 /\ Img(deck[k]) = None

\* One call of stitch_deck from export_deck's loop: the file of the sheet is
\* saved, or the call raises (the paste of None cannot size its region, or the
\* download of the hidden card fails) and export_deck is left by the exception.
ExportStitch ==
    /\ split.pc = "export"
    /\ split.deck_count < Len(split.decks)
    /\ LET deck == split.decks[split.deck_count + 1]
       IN \E download_ok \in BOOLEAN :
            IF PasteRaises(deck)
            THEN split' = [split EXCEPT !.pc = "raised",
                                        !.exception = "ValueError"]
            ELSE IF ~download_ok
            THEN split' = [split EXCEPT !.pc = "raised",
                                        !.exception = "URLError"]
            ELSE split' = [split EXCEPT !.files = Append(@, split.deck_count),
                                        !.deck_count = @ + 1]
    /\ UNCHANGED <<stitch, read, main>>

ExportReturn ==
    /\ split.pc = "export"
    /\ split.deck_count = Len(split.decks)
    /\ split' = [split EXCEPT !.pc = "exported"]
    /\ UNCHANGED <<stitch, read, main>>

InitExport ==
    /\ split \in {ExportStart(entries) : entries \in SplitInputs}
    /\ stitch = Idle
    /\ read = Idle
    /\ main = Idle

NextExport == SplitIterate \/ SplitReturn \/ ExportStitch \/ ExportReturn

SpecExport == InitExport /\ [][NextExport]_vars

(***************************************************************************)
(* Properties of split_deck_if_necessary and export_deck (SpecExport)      *)
(***************************************************************************)

\* split_deck_if_necessary has returned: split.decks is its result.
SplitReturned == split.pc \in {"export", "exported", "raised"}

RECURSIVE Flatten(_)
Flatten(decks) ==
    IF decks = <<>> THEN <<>> ELSE decks[1] \o Flatten(Tail(decks))

RECURSIVE SumOfSheets(_)
SumOfSheets(decks) ==
    IF decks = <<>> THEN 0 ELSE no_of_cards(decks[1]) + SumOfSheets(Tail(decks))

AllQuantitiesPositive(entries) ==
    \A k \in 1..Len(entries) : Qty(entries[k]) >= 1

OversizedSingle(deck) == Len(deck) = 1 /\ Qty(deck[1]) > SheetCapacity

\* C1: when every input entry has quantity >= 1, every sheet returned by
\* split_deck_if_necessary has total quantity <= 69, except a sheet made of
\* exactly one entry whose own quantity exceeds 69.
C1_SheetsWithinCapacity ==
    (SplitReturned /\ AllQuantitiesPositive(split.entries)) =>
        \A k \in 1..Len(split.decks) :
            \/ no_of_cards(split.decks[k]) <= SheetCapacity
            \/ OversizedSingle(split.decks[k])

\* A returned partition of positive entries holding both an oversized single
\* entry and a sheet of several entries filled to exactly the capacity.
C1_Witness ==
    /\ SplitReturned
    /\ AllQuantitiesPositive(split.entries)
    /\ \E k \in 1..Len(split.decks) : OversizedSingle(split.decks[k])
    /\ \E k \in 1..Len(split.decks) :
          /\ Len(split.decks[k]) >= 2
          /\ no_of_cards(split.decks[k]) = SheetCapacity

\* C2: the sheets returned by split_deck_if_necessary, concatenated in emission
\* order, are exactly the input sequence, so the quantities of the sheets sum
\* to the quantities of the input.
C2_ConcatenationIsInput ==
    SplitReturned =>
        /\ Flatten(split.decks) = split.entries
        /\ SumOfSheets(split.decks) = no_of_cards(split.entries)

\* A returned partition into at least two sheets that hold entries.
C2_Witness ==
    /\ SplitReturned
    /\ Len(split.entries) >= 3
    /\ \E j, k \in 1..Len(split.decks) :
          j < k /\ split.decks[j] # <<>> /\ split.decks[k] # <<>>

\* C3 (as stated): every deck list whose quantities sum to 140 is returned as
\* exactly three sheets, the first two with total quantity <= 69 and the third
\* holding the remainder, in original order.
C3_ExactlyThreeSheets ==
    (SplitReturned /\ no_of_cards(split.entries) = 140) =>
        /\ Len(split.decks) = 3
        /\ no_of_cards(split.decks[1]) <= SheetCapacity
        /\ no_of_cards(split.decks[2]) <= SheetCapacity
        /\ Flatten(split.decks) = split.entries

QuantitiesFitASheet(entries) ==
    \A k \in 1..Len(entries) :
        Qty(entries[k]) >= 1 /\ Qty(entries[k]) <= SheetCapacity

\* C3 (amended): a deck list whose quantities sum to 140, each quantity between
\* 1 and 69, is returned as at least three sheets, each holding at least one
\* entry and at most 69 cards, in original order.
C3_AtLeastThreeSheets ==
    (/\ SplitReturned
     /\ no_of_cards(split.entries) = 140
     /\ QuantitiesFitASheet(split.entries)) =>
        /\ Len(split.decks) >= 3
        /\ \A k \in 1..Len(split.decks) :
              /\ split.decks[k] # <<>>
              /\ no_of_cards(split.decks[k]) <= SheetCapacity
        /\ Flatten(split.decks) = split.entries

\* A list summing to 140 that is returned as exactly three sheets.
C3_Witness ==
    /\ SplitReturned
    /\ no_of_cards(split.entries) = 140
    /\ QuantitiesFitASheet(split.entries)
    /\ Len(split.decks) = 3

HasEmptySheet(decks) == \E k \in 1..Len(decks) : decks[k] = <<>>

\* C10: split_deck_if_necessary returns an empty sheet iff the input is empty
\* or its first entry has quantity > 69; the empty sheet is then the first
\* sheet and the only empty one; and an export_deck that runs to its end has
\* written one file per returned sheet, numbered from 0.
C10_EmptySheetOnlyFirst ==
    /\ SplitReturned =>
          /\ HasEmptySheet(split.decks) <=>
                (\/ split.entries = <<>>
                 \/ Qty(split.entries[1]) > SheetCapacity)
          /\ \A k \in 2..Len(split.decks) : split.decks[k] # <<>>
    /\ split.pc = "exported" =>
          /\ Len(split.files) = Len(split.decks)
          /\ \A k \in 1..Len(split.files) : split.files[k] = k - 1

\* An export that ran to its end after an oversized first entry: the empty
\* first sheet has its file, and so have the sheets after it.
C10_Witness ==
    /\ split.pc = "exported"
    /\ split.entries # <<>>
    /\ split.decks[1] = <<>>
    /\ Len(split.decks) >= 3
    /\ Len(split.files) = Len(split.decks)

(***************************************************************************)
(* stitch_deck                                                             *)
(***************************************************************************)

\* Longest sheet handed to stitch_deck.
MaxSheetLen == 2

CARDS_PER_ROW == 10
CARDS_PER_COLUMN == 7
CARD_WIDTH == 312
CARD_HEIGHT == 445

\* The composite is CARDS_PER_ROW * CARD_WIDTH by CARDS_PER_COLUMN * CARD_HEIGHT
\* pixels.  Card scans and the resized hidden card are one cell in size and
\* are only ever pasted at multiples of the cell size, so the composite is
\* modelled by what each cell, named by the pixel origin of the cell, shows.
Origins ==
    {<<CARD_WIDTH * c, CARD_HEIGHT * r>> :
        c \in 0..(CARDS_PER_ROW - 1), r \in 0..(CARDS_PER_COLUMN - 1)}

\* Image.new('RGB', size): a black composite.
NewImage == [o \in Origins |-> "black"]

\* deck_face.paste(im, (x, y)): the cell at that origin shows im; a box that
\* lies outside the composite is clipped away and changes nothing.
Paste(deck_face, im, xy) ==
    [o \in Origins |-> IF o = xy THEN im ELSE deck_face[o]]

\* A slip in the box of the hidden card: the cell count instead of the last index.
HiddenCardOriginOffGrid ==
    <<CARD_WIDTH * CARDS_PER_ROW, CARD_HEIGHT * CARDS_PER_COLUMN>>

\* The box the hidden card is pasted at.
HiddenCardOrigin ==
    <<CARD_WIDTH * (CARDS_PER_ROW - 1), CARD_HEIGHT * (CARDS_PER_COLUMN - 1)>>

\* A slip in the counter: it starts at 0, so the first row takes eleven cards.
StitchStartCountsFromZero(entries) ==
    [pc |-> "paste", entries |-> entries, e |-> 1, i |-> 0,
     current_card_count |-> 0, x |-> 0, y |-> 0,
     deck_face |-> NewImage, file |-> None]

\* stitch_deck(entries, ...) is entered: the locals before the loops.  e is the
\* position of `entry` in entries, i the inner loop's index.
StitchStart(entries) ==
    [pc |-> "paste", entries |-> entries, e |-> 1, i |-> 0,
     current_card_count |-> 1, x |-> 0, y |-> 0,
     deck_face |-> NewImage, file |-> None]

\* One pass of the inner loop: paste the entry's image, move the cursor.
StitchPaste ==
    /\ stitch.pc = "paste"
    /\ stitch.e <= Len(stitch.entries)
    /\ stitch.i < Qty(stitch.entries[stitch.e])
    /\ LET im == Img(stitch.entries[stitch.e])
       IN IF im = None
          THEN stitch' = [stitch EXCEPT !.pc = "raised"]
          ELSE stitch' = [stitch EXCEPT
                  !.deck_face = Paste(@, im, <<stitch.x, stitch.y>>),
                  !.x = IF stitch.current_card_count % CARDS_PER_ROW = 0
                        THEN 0 ELSE @ + CARD_WIDTH,
                  !.y = IF stitch.current_card_count % CARDS_PER_ROW = 0
                        THEN @ + CARD_HEIGHT ELSE @,
                  !.current_card_count = @ + 1,
                  !.i = @ + 1]
    /\ UNCHANGED <<split, read, main>>

\* range(0, entry[0]) is exhausted: the outer loop takes the next entry.
StitchNextEntry ==
    /\ stitch.pc = "paste"
    /\ stitch.e <= Len(stitch.entries)
    /\ stitch.i >= Qty(stitch.entries[stitch.e])
    /\ stitch' = [stitch EXCEPT !.e = @ + 1, !.i = 0]
    /\ UNCHANGED <<split, read, main>>

\* After the loops: download the hidden card (which may fail and raise), paste
\* it and save the composite.
StitchHidden ==
    /\ stitch.pc = "paste"
    /\ stitch.e > Len(stitch.entries)
    /\ \E download_ok \in BOOLEAN :
          IF ~download_ok
          THEN stitch' = [stitch EXCEPT !.pc = "raised"]
          ELSE LET face == Paste(stitch.deck_face, "hidden_card", HiddenCardOrigin)
               IN stitch' = [stitch EXCEPT !.deck_face = face, !.file = face,
                                           !.pc = "saved"]
    /\ UNCHANGED <<split, read, main>>

\* Entries of the sheets given to stitch_deck.
StitchEntries ==
    ({0, 1, 2, 68, 69, 70, 71} \X {"imgA"})
        \cup {<<1, "imgB">>, <<2, "imgB">>, <<1, None>>}

\* stitch_deck is only called on the sheets split_deck_if_necessary returns.
IsSheet(s) ==
    \E k \in 1..Len(split_deck_if_necessary(s)) :
        split_deck_if_necessary(s)[k] = s

StitchInputs == {s \in SeqsUpTo(StitchEntries, MaxSheetLen) : IsSheet(s)}

InitStitch ==
    /\ stitch \in {StitchStart(entries) : entries \in StitchInputs}
    /\ split = Idle
    /\ read = Idle
    /\ main = Idle

NextStitch == StitchPaste \/ StitchNextEntry \/ StitchHidden

SpecStitch == InitStitch /\ [][NextStitch]_vars

(***************************************************************************)
(* Properties of stitch_deck (SpecStitch)                                  *)
(***************************************************************************)

\* The images of a sheet, one per physical card, in placement order.
RECURSIVE Expand(_)
Expand(entries) ==
    IF entries = <<>> THEN <<>>
    ELSE [k \in 1..Qty(entries[1]) |-> Img(entries[1])] \o Expand(Tail(entries))

\* The number of placements made when the loops stand at entry e, copy i.
PlacedBefore(entries, e, i) == no_of_cards(SubSeq(entries, 1, e - 1)) + i

\* C6: every composite stitch_deck saves shows the hidden card in the last
\* grid cell (column 9, row 6, pixel origin (2808, 2670)), whatever the sheet
\* held: no card pasted into that cell remains visible.
C6_HiddenCardInLastCell ==
    stitch.pc = "saved" => stitch.file[<<2808, 2670>>] = "hidden_card"

\* A composite saved for a sheet of 70 or more cards: the 70th card was pasted
\* into the last cell before the hidden card.
C6_Witness ==
    /\ stitch.pc = "saved"
    /\ no_of_cards(stitch.entries) >= 70
    /\ stitch.file[<<2496, 2670>>] = "imgA"

\* C9: the k-th physical card (k from 0) is pasted at pixel origin
\* (312 * (k mod 10), 445 * (k div 10)), and the cards pasted so far show in
\* their cells; on a sheet of at most 69 cards every placement lies inside
\* the 10 x 7 grid and none falls on the last cell.
C9_RowMajorPlacement ==
    (stitch.pc = "paste" /\ stitch.e <= Len(stitch.entries)) =>
        LET k == PlacedBefore(stitch.entries, stitch.e, stitch.i)
            cards == Expand(stitch.entries)
        IN /\ stitch.x = 312 * (k % 10)
           /\ stitch.y = 445 * (k \div 10)
           /\ \A j \in 0..(k - 1) :
                 j < 70 => stitch.deck_face[<<312 * (j % 10), 445 * (j \div 10)>>]
                              = cards[j + 1]
           /\ (no_of_cards(stitch.entries) <= 69 /\ k < Len(cards)) =>
                 /\ stitch.x <= 312 * 9
                 /\ stitch.y <= 445 * 6
                 /\ <<stitch.x, stitch.y>> # <<2808, 2670>>

\* The loops stand before the 69th placement of a two-entry sheet of 69 cards:
\* two full rows and more are behind them.
C9_Witness ==
    /\ stitch.pc = "paste"
    /\ Len(stitch.entries) = 2
    /\ stitch.e = 2
    /\ no_of_cards(stitch.entries) = 69
    /\ PlacedBefore(stitch.entries, stitch.e, stitch.i) = 68
    /\ stitch.i < Qty(stitch.entries[2])
    /\ <<stitch.x, stitch.y>> = <<2496, 2670>>

(***************************************************************************)
(* read_deck                                                               *)
(***************************************************************************)

\* Most lines in a deck file.
MaxLines == 2

\* Text is a sequence of one-character strings.
Str1(a) == <<a>>
Str2(a, b) == <<a, b>>
Str3(a, b, c) == <<a, b, c>>

\* The lines of the deck files read (without their line ends, which strip()
\* removes): optional leading blank, a first token, a separator, a remainder.
\* Among them are comment and sideboard lines, blank lines, lines with one
\* token only, and first tokens that are positive, zero, negative or no number.
LinePrefixes == {<<>>, Str1(" ")}
FirstTokens ==
    {<<>>, Str1("1"), Str1("0"), Str2("1", "0"), Str2("-", "1"), Str1("-"),
     Str2("1", "x"), Str1("P"), Str2("/", "/"), Str2("S", "B")}
Separators == {<<>>, Str1(" "), Str2(" ", " ")}
Remainders == {<<>>, Str1("P"), Str3("P", " ", "Q")}

RawLines ==
    {p \o t \o b \o r :
        p \in LinePrefixes, t \in FirstTokens, b \in Separators, r \in Remainders}

Files == SeqsUpTo(RawLines, MaxLines)

Digits == {"0", "1", "2", "3", "4", "5", "6", "7", "8", "9"}

DigitValue(d) ==
    CASE d = "0" -> 0 [] d = "1" -> 1 [] d = "2" -> 2 [] d = "3" -> 3
      [] d = "4" -> 4 [] d = "5" -> 5 [] d = "6" -> 6 [] d = "7" -> 7
      [] d = "8" -> 8 [] d = "9" -> 9

\* l.startswith(prefix)
StartsWith(l, prefix) ==
    Len(l) >= Len(prefix) /\ SubSeq(l, 1, Len(prefix)) = prefix

\* l.strip(): leading and trailing blanks removed.
RECURSIVE LStrip(_)
LStrip(l) ==
    IF l # <<>> /\ l[1] = " " THEN LStrip(Tail(l)) ELSE l

RECURSIVE RStrip(_)
RStrip(l) ==
    IF l # <<>> /\ l[Len(l)] = " " THEN RStrip(SubSeq(l, 1, Len(l) - 1)) ELSE l

Strip(l) == RStrip(LStrip(l))

\* The list comprehension and filter(None, ...): lines that start with '//' or
\* 'SB' (tested before stripping) are dropped, the others are stripped, and the
\* ones left empty are dropped.
RECURSIVE FilterLines(_)
FilterLines(file) ==
    IF file = <<>> THEN <<>>
    ELSE LET l == file[1]
             rest == FilterLines(Tail(file))
         IN IF StartsWith(l, Str2("/", "/")) \/ StartsWith(l, Str2("S", "B"))
            THEN rest
            ELSE IF Strip(l) = <<>> THEN rest ELSE <<Strip(l)>> \o rest

\* The position of the first blank of a line, 0 when it has none.
RECURSIVE FirstBlank(_, _)
FirstBlank(line, k) ==
    IF k > Len(line) THEN 0
    ELSE IF line[k] = " " THEN k ELSE FirstBlank(line, k + 1)

\* line.split(' ', 1): one token when the line has no blank, else the text
\* before the first blank and all the text after it.
SplitOnce(line) ==
    LET k == FirstBlank(line, 1)
    IN IF k = 0 THEN <<line>>
       ELSE <<SubSeq(line, 1, k - 1), SubSeq(line, k + 1, Len(line))>>

RECURSIVE DigitsValue(_, _)
DigitsValue(ds, acc) ==
    IF ds = <<>> THEN acc
    ELSE DigitsValue(Tail(ds), 10 * acc + DigitValue(ds[1]))

AllDigits(ds) == ds # <<>> /\ \A k \in 1..Len(ds) : ds[k] \in Digits

\* int(token) accepts an optional sign followed by decimal digits.
IntAccepts(token) ==
    \/ AllDigits(token)
    \/ token # <<>> /\ token[1] \in {"-", "+"} /\ AllDigits(Tail(token))

IntValue(token) ==
    IF token[1] = "-" THEN 0 - DigitsValue(Tail(token), 0)
    ELSE IF token[1] = "+" THEN DigitsValue(Tail(token), 0)
    ELSE DigitsValue(token, 0)

\* The tuple (int(tokens[0]), tokens[1]) of one line: int() is evaluated
\* first and raises ValueError; tokens[1] raises IndexError on a single token.
ParseOutcome(line) ==
    LET tokens == SplitOnce(line)
    IN IF ~IntAccepts(tokens[1]) THEN [ok |-> FALSE, exception |-> "ValueError"]
       ELSE IF Len(tokens) < 2 THEN [ok |-> FALSE, exception |-> "IndexError"]
       ELSE [ok |-> TRUE, entry |-> <<IntValue(tokens[1]), tokens[2]>>]

ReadStart(file) ==
    [pc |-> "open", file |-> file, lines |-> <<>>, k |-> 1, entries |-> <<>>,
     exception |-> None]

\* The file is opened and read whole, and its lines are filtered; opening or
\* decoding may fail.
ReadFilter ==
    /\ read.pc = "open"
    /\ \E open_ok \in BOOLEAN :
          IF open_ok
          THEN read' = [read EXCEPT !.lines = FilterLines(read.file),
                                    !.pc = "parse"]
          ELSE read' = [read EXCEPT !.pc = "raised", !.exception = "IOError"]
    /\ UNCHANGED <<split, stitch, main>>

\* One pass of the parsing loop.
ReadParseLine ==
    /\ read.pc = "parse"
    /\ read.k <= Len(read.lines)
    /\ LET r == ParseOutcome(read.lines[read.k])
       IN IF r.ok
          THEN read' = [read EXCEPT !.entries = Append(@, r.entry), !.k = @ + 1]
          ELSE read' = [read EXCEPT !.pc = "raised", !.exception = r.exception]
    /\ UNCHANGED <<split, stitch, main>>

ReadReturn ==
    /\ read.pc = "parse"
    /\ read.k > Len(read.lines)
    /\ read' = [read EXCEPT !.pc = "returned"]
    /\ UNCHANGED <<split, stitch, main>>

InitRead ==
    /\ read \in {ReadStart(file) : file \in Files}
    /\ split = Idle
    /\ stitch = Idle
    /\ main = Idle

NextRead == ReadFilter \/ ReadParseLine \/ ReadReturn

SpecRead == InitRead /\ [][NextRead]_vars

(***************************************************************************)
(* Properties of read_deck (SpecRead)                                      *)
(***************************************************************************)

\* The first token of a data line reads as a positive integer.
FirstTokenPositive(line) ==
    LET token == SplitOnce(line)[1]
    IN IntAccepts(token) /\ IntValue(token) > 0

\* C7: read_deck fails on every data line whose first token is not a positive
\* integer (0 and negative integers included) and on every data line with no
\* second token, so a deck it returns holds only entries with quantity > 0 and
\* a non-empty card name.
C7_OnlyPositiveQuantities ==
    read.pc = "returned" =>
        /\ \A k \in 1..Len(read.lines) :
              /\ FirstTokenPositive(read.lines[k])
              /\ Len(SplitOnce(read.lines[k])) = 2
        /\ \A k \in 1..Len(read.entries) :
              /\ read.entries[k][1] > 0
              /\ read.entries[k][2] # <<>>

(***************************************************************************)
(* fetch_images and the loop over the DECK arguments                       *)
(***************************************************************************)

\* Most DECK arguments of a run, and most entries read_deck returns for one.
MaxDecks == 2
MaxEntries == 2

CardNames == {"Plains", "Bolt"}

is_basic_land(card_name) ==
    card_name \in {"Plains", "Island", "Swamp", "Mountain", "Forest"}

\* The (quantity, card name) pairs read_deck returns; 70 copies of one card
\* make a sheet of their own.
DeckEntries == ({0, 1, 2} \X CardNames) \cup {<<70, "Bolt">>}

DeckLists == SeqsUpTo(DeckEntries, MaxEntries)

ImageAt(url) == IF url = "urlA" THEN "imgA" ELSE "imgB"

\* fetch_card_image_url(card_name): the query download raises, or the page
\* has no link for the card (None), or the scan's URL is returned.
CardUrlOutcomes ==
    {[raises |-> TRUE, exception |-> "URLError"],
     [raises |-> FALSE, url |-> None],
     [raises |-> FALSE, url |-> "urlA"]}

\* fetch_basic_land_image_urls(card_name, verbose): a download raises, or the
\* card's page has no <small> element (IndexError), or the query page has no
\* link for the card (None), or the list of variant URLs, which may be empty.
LandUrlOutcomes ==
    {[raises |-> TRUE, exception |-> "URLError"],
     [raises |-> TRUE, exception |-> "IndexError"],
     [raises |-> FALSE, urls |-> None],
     [raises |-> FALSE, urls |-> <<>>],
     [raises |-> FALSE, urls |-> <<"urlA">>],
     [raises |-> FALSE, urls |-> <<"urlA", "urlB">>]}

\* fetch_image(url): every exception of the download and of the decoding is
\* caught and gives None; a url of None always fails to download.
fetch_image(url) ==
    IF url = None THEN {None} ELSE {ImageAt(url), None}

MainStart(ndecks, randomise_lands) ==
    [pc |-> "read", ndecks |-> ndecks, deck |-> 1,
     randomise_lands |-> randomise_lands,
     entries |-> <<>>, e |-> 1, i |-> 0, urls |-> None,
     processed_entries |-> <<>>,
     files |-> [d \in 1..ndecks |-> 0],
     errors |-> [d \in 1..ndecks |-> FALSE],
     exception |-> None, raised_in |-> None]

\* The locals of the deck loop's body, forgotten between decks.
ForgetDeck(m) ==
    [m EXCEPT !.entries = <<>>, !.e = 1, !.i = 0, !.urls = None,
              !.processed_entries = <<>>]

\* The deck loop takes the next DECK argument, or ends.
NextDeck(m) ==
    IF m.deck < m.ndecks
    THEN [ForgetDeck(m) EXCEPT !.deck = @ + 1, !.pc = "read"]
    ELSE [ForgetDeck(m) EXCEPT !.pc = "done"]

\* An exception no handler catches ends the run.
Abort(m, exception, raised_in) ==
    [ForgetDeck(m) EXCEPT !.pc = "aborted", !.exception = exception,
                          !.raised_in = raised_in]

\* A slip in the handler: the error is printed but `continue` is missing, so
\* the deck goes on to be exported.
CatchUnavailableFallsThrough(m) ==
    [m EXCEPT !.errors[m.deck] = TRUE, !.e = Len(m.entries) + 1]

\* except UnavailableCardImageException: print the error, continue.
CatchUnavailable(m) ==
    NextDeck([m EXCEPT !.errors[m.deck] = TRUE])

\* read_deck(deck) returns the entries of the file or raises.
MainReadDeck ==
    /\ main.pc = "read"
    /\ \/ \E entries \in DeckLists :
             main' = [main EXCEPT !.entries = entries, !.e = 1,
                                  !.processed_entries = <<>>, !.pc = "fetch"]
       \/ \E exception \in {"IOError", "ValueError", "IndexError"} :
             main' = Abort(main, exception, "read_deck")
    /\ UNCHANGED <<split, stitch, read>>

\* fetch_images, the else branch: one card that is not a randomised land.
MainFetchCard ==
    /\ main.pc = "fetch"
    /\ main.e <= Len(main.entries)
    /\ LET entry == main.entries[main.e]
       IN /\ ~(is_basic_land(entry[2]) /\ main.randomise_lands)
          /\ \E r \in CardUrlOutcomes :
                IF r.raises
                THEN main' = Abort(main, r.exception, "fetch_card_image_url")
                ELSE \E img \in fetch_image(r.url) :
                        IF img = None
                        THEN main' = CatchUnavailable(main)
                        ELSE main' = [main EXCEPT
                                !.processed_entries = Append(@, <<entry[1], img>>),
                                !.e = @ + 1]
    /\ UNCHANGED <<split, stitch, read>>

\* fetch_images, the land branch up to the inner loop: the variant URLs are
\* looked up; the loop body is entered when the quantity is at least 1.
MainFetchLandUrls ==
    /\ main.pc = "fetch"
    /\ main.e <= Len(main.entries)
    /\ LET entry == main.entries[main.e]
       IN /\ is_basic_land(entry[2]) /\ main.randomise_lands
          /\ \E r \in LandUrlOutcomes :
                IF r.raises
                THEN main' = Abort(main, r.exception, "fetch_basic_land_image_urls")
                ELSE IF entry[1] >= 1
                THEN main' = [main EXCEPT !.urls = r.urls, !.i = 0,
                                          !.pc = "choice"]
                ELSE main' = [main EXCEPT !.e = @ + 1]
    /\ UNCHANGED <<split, stitch, read>>

\* One pass of the land loop: choice(urls), which raises on None (TypeError)
\* and on an empty list (IndexError), then fetch_image of the chosen URL,
\* whose result is appended as it is.
MainChoice ==
    /\ main.pc = "choice"
    /\ LET entry == main.entries[main.e]
       IN IF main.urls = None
          THEN main' = Abort(main, "TypeError", "choice")
          ELSE IF main.urls = <<>>
          THEN main' = Abort(main, "IndexError", "choice")
          ELSE \E n \in 1..Len(main.urls) :
                  \E img \in fetch_image(main.urls[n]) :
                     LET m == [main EXCEPT
                                 !.processed_entries = Append(@, <<1, img>>),
                                 !.i = @ + 1]
                     IN main' = IF m.i >= entry[1]
                                THEN [m EXCEPT !.e = @ + 1, !.i = 0,
                                               !.urls = None, !.pc = "fetch"]
                                ELSE m
    /\ UNCHANGED <<split, stitch, read>>

\* fetch_images has returned: export_deck is called on the resolved entries.
MainFetchDone ==
    /\ main.pc = "fetch"
    /\ main.e > Len(main.entries)
    /\ main' = [main EXCEPT !.pc = "export"]
    /\ split' = ExportStart(main.processed_entries)
    /\ UNCHANGED <<stitch, read>>

\* export_deck has returned: the deck's files are written, the loop goes on.
MainExportReturn ==
    /\ main.pc = "export"
    /\ split.pc = "exported"
    /\ main' = NextDeck([main EXCEPT !.files[main.deck] = Len(split.files)])
    /\ split' = Idle
    /\ UNCHANGED <<stitch, read>>

\* stitch_deck raised inside export_deck: nothing catches it.
MainExportRaise ==
    /\ main.pc = "export"
    /\ split.pc = "raised"
    /\ main' = Abort([main EXCEPT !.files[main.deck] = Len(split.files)],
                     split.exception, "stitch_deck")
    /\ split' = Idle
    /\ UNCHANGED <<stitch, read>>

InitMain ==
    /\ main \in {MainStart(n, r) : n \in 1..MaxDecks, r \in BOOLEAN}
    /\ split = Idle
    /\ stitch = Idle
    /\ read = Idle

NextMain ==
    \/ MainReadDeck
    \/ MainFetchCard
    \/ MainFetchLandUrls
    \/ MainChoice
    \/ MainFetchDone
    \/ SplitIterate
    \/ SplitReturn
    \/ ExportStitch
    \/ ExportReturn
    \/ MainExportReturn
    \/ MainExportRaise

SpecMain == InitMain /\ [][NextMain]_vars

(***************************************************************************)
(* Properties of the run over the DECK arguments (SpecMain)                *)
(***************************************************************************)

DeckNumbers == 1..main.ndecks

C5_LookupFailureNeverAborts ==
    main.pc = "aborted" =>
        ~(/\ main.exception = "URLError"
          /\ main.raised_in \in {"fetch_card_image_url", "fetch_image"})

\* C8: with land randomisation enabled, the random draw is never made on a
\* missing or empty pool: choice(urls) is not reached with urls None or
\* empty, and so never raises.
C8_DrawOnlyFromNonEmptyPool ==
    /\ main.pc = "choice" => (main.urls # None /\ main.urls # <<>>)
    /\ main.raised_in # "choice"

=============================================================================
